---- MODULE Spec2Model ----
(***************************************************************************)
(* Carbon: a key/value server speaking a binary TCP protocol               *)
(* (carbon/__main__.py), its client (carbon/client.py) and the shared      *)
(* enumerations (carbon/typing.py).                                        *)
(*                                                                         *)
(* Bytes and characters are natural numbers; a byte string is a sequence of *)
(* bytes and a text a sequence of code points.  The "ascii" codec maps a   *)
(* code point below 128 to the byte of the same number and raises on any   *)
(* other; "utf-8" is modelled for its one- and two-byte forms, the only    *)
(* ones the inputs below contain.                                          *)
(***************************************************************************)
EXTENDS Integers, Sequences, FiniteSets, TLC

VARIABLES
    db,       \* node -> rows of table "items", in rowid order
    sess,     \* session -> the locals of one Carbon.handle coroutine
    inbuf,    \* session -> bytes received on its read_stream, not yet read
    eof,      \* session -> the remote end has closed its sending side
    out,      \* session -> the responses written to its write_stream
    conn,     \* peer connection -> state of the StreamWriter a session holds
    hist,     \* node -> the WRIT/WIPE statements executed on it (history)
    last,     \* session -> the transaction it dispatched last (history)
    frames,   \* number of request frames the clients have sent
    sel,      \* the locals and effects of one CarbonDB.select_host call
    cli       \* the transaction a CarbonDB client encoded last (history)

vars == <<db, sess, inbuf, eof, out, conn, hist, last, frames, sel, cli>>

----------------------------------------------------------------------------
(* Bounds *)

MaxFrames == 3      \* request frames sent by the clients of node 1
MaxPeerConns == 2   \* outbound peer connections opened in total

----------------------------------------------------------------------------
(* Sequences of bytes *)

Min(a, b) == IF a < b THEN a ELSE b

Take(s, n) == SubSeq(s, 1, Min(n, Len(s)))

Drop(s, n) == SubSeq(s, Min(n, Len(s)) + 1, Len(s))

Rep(b, n) == [i \in 1..n |-> b]

\* struct.pack(">I", n)
U32(n) == <<(n \div 16777216) % 256, (n \div 65536) % 256, (n \div 256) % 256, n % 256>>

\* struct.unpack(">I", b)
FromU32(b) == b[1] * 16777216 + b[2] * 65536 + b[3] * 256 + b[4]

RECURSIVE Utf8Valid(_)
\* b is well-formed UTF-8: bytes below 128, and a lead byte 0xC2..0xDF
\* followed by a continuation byte 0x80..0xBF
Utf8Valid(b) ==
    IF b = <<>> THEN TRUE
    ELSE IF b[1] < 128 THEN Utf8Valid(Tail(b))
    ELSE /\ b[1] \in 194..223
         /\ Len(b) >= 2
         /\ b[2] \in 128..191
         /\ Utf8Valid(Tail(Tail(b)))

RECURSIVE Utf8Decode(_)
\* bytes.decode("utf-8") of well-formed bytes
Utf8Decode(b) ==
    IF b = <<>> THEN <<>>
    ELSE IF b[1] < 128 THEN <<b[1]>> \o Utf8Decode(Tail(b))
    ELSE <<(b[1] - 192) * 64 + (b[2] - 128)>> \o Utf8Decode(Tail(Tail(b)))

RECURSIVE Utf8Encode(_)
\* str.encode("utf-8") of code points below U+0800
Utf8Encode(s) ==
    IF s = <<>> THEN <<>>
    ELSE (IF s[1] < 128 THEN <<s[1]>> ELSE <<192 + (s[1] \div 64), 128 + (s[1] % 64)>>)
             \o Utf8Encode(Tail(s))

\* bytes.decode("utf-8") raises UnicodeDecodeError on these
Undecodable(b) == ~Utf8Valid(b)

\* str.encode("ascii") raises UnicodeEncodeError unless this holds
IsAscii(s) == \A i \in 1..Len(s) : s[i] < 128

----------------------------------------------------------------------------
(* carbon/typing.py *)

Transaction == [PING |-> 0, WRIT |-> 1, READ |-> 2, WIPE |-> 3, AUTH |-> 4]

Response == [HELO |-> 0, OPOK |-> 1, FAIL |-> 2]

\* Transaction(type) succeeds exactly for these values
TransactionValues == {Transaction[m] : m \in DOMAIN Transaction}

----------------------------------------------------------------------------
(* Texts the program uses *)

TIME == <<84, 73, 77, 69>>
LIST == <<76, 73, 83, 84>>
NULL == <<110, 117, 108, 108>>
QUOTE == 34
SLASH == 47

MsgNoSuchType ==
    <<84, 104, 101, 32, 115, 112, 101, 99, 105, 102, 105, 101, 100, 32, 116,
      114, 97, 110, 115, 97, 99, 116, 105, 111, 110, 32, 116, 121, 112, 101,
      32, 100, 111, 101, 115, 32, 110, 111, 116, 32, 101, 120, 105, 115, 116,
      46>>

\* the empty message
NoMessage == <<>>

MsgNoAuth ==
    <<65, 117, 116, 104, 101, 110, 116, 105, 99, 97, 116, 105, 111, 110, 32,
      110, 111, 116, 32, 115, 117, 112, 112, 111, 114, 116, 101, 100, 32, 111,
      110, 32, 116, 104, 105, 115, 32, 100, 97, 116, 97, 98, 97, 115, 101,
      46>>

----------------------------------------------------------------------------
(* The wire codec *)

\* nanoid.generate(): 21 characters
NanoIds == {Rep(65, 21), Rep(66, 21)}

\* A Python value handed to build_transaction
NoValue == [t |-> "none", s |-> <<>>]
StrValue(s) == [t |-> "str", s |-> s]
BytesValue(b) == [t |-> "bytes", s |-> b]

\* a hexadecimal digit as json.dumps writes it in a \u escape
HexDigit(d) == IF d < 10 THEN 48 + d ELSE 87 + d

RECURSIVE JsonEscape(_)
\* ensure_ascii: a quote or backslash is escaped, a code point above 127 is
\* written as \uXXXX
JsonEscape(s) ==
    IF s = <<>> THEN <<>>
    ELSE (IF Head(s) \in {34, 92} THEN <<92, Head(s)>>
          ELSE IF Head(s) > 127
          THEN <<92, 117>> \o [i \in 1..4 |-> HexDigit((Head(s) \div (16 ^ (4 - i))) % 16)]
          ELSE <<Head(s)>>)
             \o JsonEscape(Tail(s))

\* json.dumps of a str
JsonDumps(s) == <<QUOTE>> \o JsonEscape(s) \o <<QUOTE>>

\* the value bytes build_transaction sends
ValueBytes(value) ==
    IF value.t = "bytes" THEN value.s
    ELSE IF value.t = "none" THEN <<>>
    ELSE JsonDumps(value.s)

\* CarbonDB.build_transaction: struct.pack(">21sBBI", ...) + key + value
BuildTransaction(id, type, key, value) ==
    id \o <<type, Len(key)>> \o U32(Len(ValueBytes(value))) \o key \o ValueBytes(value)

\* A request as Carbon.handle's struct.unpack(">21sBII", ...) lays it out
ServerFrame(id, type, key, value) ==
    id \o <<type>> \o U32(Len(key)) \o U32(Len(value)) \o key \o value

HeaderSize == 30

\* struct.unpack(">21sBII", payload) of a 30-byte payload
UnpackHeader(payload) ==
    [id |-> SubSeq(payload, 1, 21),
     type |-> payload[22],
     key_length |-> FromU32(SubSeq(payload, 23, 26)),
     value_length |-> FromU32(SubSeq(payload, 27, 30))]

\* Carbon.build_response: struct.pack(">BI", status, len(data)) +
\* data.encode("ascii"), for a text the codec accepts
BuildResponse(result, data) == <<result>> \o U32(Len(data)) \o data

----------------------------------------------------------------------------
(* The table "items (key STRING, value STRING)" *)

IsDigits(s) == Len(s) > 0 /\ \A i \in 1..Len(s) : s[i] \in 48..57

RECURSIVE ParseInt(_)
ParseInt(s) ==
    IF s = <<>> THEN 0
    ELSE ParseInt(SubSeq(s, 1, Len(s) - 1)) * 10 + (s[Len(s)] - 48)

\* A column declared STRING has NUMERIC affinity: a text that is an integer
\* literal is stored as an INTEGER.
NumericAffinity(text) ==
    IF IsDigits(text) THEN [t |-> "int", n |-> ParseInt(text), s |-> <<>>]
    ELSE [t |-> "text", n |-> 0, s |-> text]

\* INSERT OR REPLACE INTO items VALUES (?, ?): the table has no key or
\* unique constraint, so no row conflicts and the row is added.
SqlInsertOrReplace(rows, key, value) ==
    Append(rows, [key |-> NumericAffinity(key), value |-> NumericAffinity(value)])

\* SELECT value FROM items WHERE key = ?
SqlSelect(rows, key) ==
    SelectSeq(rows, LAMBDA r : r.key = NumericAffinity(key))

\* a DELETE that removes one row only, the oldest of the key
SqlDeleteFirst(rows, key) ==
    LET at == {i \in 1..Len(rows) : rows[i].key = NumericAffinity(key)} IN
    IF at = {} THEN rows
    ELSE LET i == CHOOSE j \in at : \A k \in at : j <= k IN
         SubSeq(rows, 1, i - 1) \o SubSeq(rows, i + 1, Len(rows))

\* DELETE FROM items WHERE key = ?
SqlDelete(rows, key) ==
    SelectSeq(rows, LAMBDA r : r.key # NumericAffinity(key))

----------------------------------------------------------------------------
(* The server: nodes, sessions and their peers *)

Nodes == {1, 2, 3}

\* Sessions accepted from clients (all on node 1) and the sessions that serve
\* the connections a PEER transaction opens to the other nodes.
Clients == {1, 2}
PeerSlots == {2 + i : i \in 1..MaxPeerConns}
Sessions == Clients \cup PeerSlots

\* "h2", "h3": the addresses of nodes 2 and 3
HostName(n) == <<104, 48 + n>>
KnownHosts == {HostName(n) : n \in Nodes \ {1}}
NodeOf(addr) == CHOOSE n \in Nodes : HostName(n) = addr

NoMutation == [op |-> "none", key |-> <<>>, value |-> <<>>]

\* the last WRIT/WIPE of key in a node's history
LastMutation(h, key) ==
    LET idx == {i \in 1..Len(h) : h[i].op \in {"WRIT", "WIPE"} /\ h[i].key = key} IN
    IF idx = {} THEN NoMutation ELSE h[CHOOSE i \in idx : \A j \in idx : j <= i]

NoSession ==
    [node |-> 0, pc |-> "none", exc |-> "none", id |-> <<>>, type |-> 0, key_length |-> 0,
     value_length |-> 0, key |-> <<>>, peers |-> <<>>]

\* Carbon.handle up to its first read: session_peers = []
NewSession(n) == [NoSession EXCEPT !.node = n, !.pc = "header"]

NoLast ==
    [n |-> 0, type |-> 0, key |-> <<>>, value |-> <<>>, prior |-> NoMutation,
     peers0 |-> <<>>, helo |-> <<>>, resp |-> <<>>, sent |-> FALSE]

\* An exception leaves Carbon.handle: nothing after the raising line runs.
Raise(s, exc) == [sess EXCEPT ![s].pc = "crashed", ![s].exc = exc]

\* A client connects to node 1.
Accept(c) ==
    /\ c \in Clients
    /\ sess[c].pc = "none"
    /\ sess' = [sess EXCEPT ![c] = NewSession(1)]
    /\ UNCHANGED <<db, inbuf, eof, out, conn, hist, last, frames, sel, cli>>

Keys == {<<107>>}
Values == {<<97>>, <<98>>, <<53>>}
PeerLists == {HostName(2) \o <<SLASH>> \o HostName(3)}

\* The id the clients of node 1 put in their requests
ClientId == Rep(67, 21)

\* The requests the clients of node 1 send
Requests ==
    {[type |-> 0, key |-> TIME, value |-> <<>>]}
    \cup {[type |-> 1, key |-> k, value |-> v] : k \in Keys, v \in Values}
    \cup {[type |-> t, key |-> k, value |-> <<>>] : t \in {2, 3, 6}, k \in Keys}
    \cup {[type |-> 4, key |-> <<80, 83, 87>>, value |-> <<120>>]}
    \cup {[type |-> 5, key |-> LIST, value |-> JsonDumps(l)] : l \in PeerLists}

\* A client sends one request on its open connection, once the bytes it sent
\* before have been read.
ClientSend(c, r) ==
    /\ c \in Clients
    /\ sess[c].pc \notin {"none", "teardown", "closed", "aborted"}
    /\ inbuf[c] = <<>>
    /\ ~eof[c]
    /\ frames < MaxFrames
    /\ frames' = frames + 1
    /\ inbuf' = [inbuf EXCEPT ![c] = ServerFrame(ClientId, r.type, r.key, r.value)]
    /\ UNCHANGED <<db, sess, eof, out, conn, hist, last, sel, cli>>

\* A client closes its connection.
ClientDisconnect(c) ==
    /\ c \in Clients
    /\ sess[c].pc # "none"
    /\ ~eof[c]
    /\ eof' = [eof EXCEPT ![c] = TRUE]
    /\ UNCHANGED <<db, sess, inbuf, out, conn, hist, last, frames, sel, cli>>

\* A peer connection breaks (reset by the other end): the transport is
\* closed with an exception, which its wait_closed() raises.
PeerLost(p) ==
    /\ p \in PeerSlots
    /\ conn[p] = "open"
    /\ conn' = [conn EXCEPT ![p] = "lost"]
    /\ UNCHANGED <<db, sess, inbuf, eof, out, hist, last, frames, sel, cli>>

\* The reader's part of Carbon.handle's locals, and the bytes it has not read
Reader(s) ==
    [pc |-> sess[s].pc, exc |-> "none", buf |-> inbuf[s], id |-> sess[s].id,
     type |-> sess[s].type,
     key_length |-> sess[s].key_length, value_length |-> sess[s].value_length,
     key |-> sess[s].key, value |-> <<>>]

\* StreamReader.read(n) returns without suspending when n = 0 or when bytes or
\* the end of the stream have been received, and then at most n of the bytes
CanRead(r, n, ended) == n = 0 \/ r.buf # <<>> \/ ended

\* payload = await read_stream.read(30); if not payload: break;
\* struct.unpack(">21sBII", payload)
ReadHeader(r, ended) ==
    IF r.pc # "header" \/ (r.buf = <<>> /\ ~ended) THEN r
    ELSE IF r.buf = <<>> THEN [r EXCEPT !.pc = "teardown"]
    ELSE IF Len(r.buf) < HeaderSize
    THEN [r EXCEPT !.pc = "crashed", !.exc = "struct.error", !.buf = <<>>]
    ELSE [r EXCEPT !.pc = "key",
                   !.buf = Drop(@, HeaderSize),
                   !.id = UnpackHeader(Take(r.buf, HeaderSize)).id,
                   !.type = UnpackHeader(Take(r.buf, HeaderSize)).type,
                   !.key_length = UnpackHeader(Take(r.buf, HeaderSize)).key_length,
                   !.value_length = UnpackHeader(Take(r.buf, HeaderSize)).value_length]

\* key = (await read_stream.read(key_length)).decode("utf-8")
ReadKey(r, ended) ==
    IF r.pc # "key" \/ ~CanRead(r, r.key_length, ended) THEN r
    ELSE IF Undecodable(Take(r.buf, r.key_length))
    THEN [r EXCEPT !.pc = "crashed", !.exc = "UnicodeDecodeError",
                   !.buf = Drop(@, r.key_length)]
    ELSE [r EXCEPT !.pc = "value", !.key = Utf8Decode(Take(r.buf, r.key_length)),
                   !.buf = Drop(@, r.key_length)]

\* value = (await read_stream.read(value_length)).decode("utf-8")
ReadValue(r, ended) ==
    IF r.pc # "value" \/ ~CanRead(r, r.value_length, ended) THEN r
    ELSE IF Undecodable(Take(r.buf, r.value_length))
    THEN [r EXCEPT !.pc = "crashed", !.exc = "UnicodeDecodeError",
                   !.buf = Drop(@, r.value_length)]
    ELSE [r EXCEPT !.pc = "dispatch", !.value = Utf8Decode(Take(r.buf, r.value_length)),
                   !.buf = Drop(@, r.value_length)]

\* The three reads of one loop iteration, as far as they go without suspending
ReadTransaction(s) == ReadValue(ReadKey(ReadHeader(Reader(s), eof[s]), eof[s]), eof[s])

----------------------------------------------------------------------------
(* Carbon.handle: dispatch of one transaction *)

RECURSIVE Strip(_, _)
\* str.strip(ch)
Strip(s, ch) ==
    IF s = <<>> THEN s
    ELSE IF Head(s) = ch THEN Strip(Tail(s), ch)
    ELSE IF s[Len(s)] = ch THEN Strip(SubSeq(s, 1, Len(s) - 1), ch)
    ELSE s

RECURSIVE Split(_, _)
\* str.split(sep): the empty text splits into one empty part
Split(s, sep) ==
    LET at == {i \in 1..Len(s) : s[i] = sep} IN
    IF at = {} THEN <<s>>
    ELSE LET i == CHOOSE j \in at : \A k \in at : j <= k IN
         <<SubSeq(s, 1, i - 1)>> \o Split(SubSeq(s, i + 1, Len(s)), sep)

\* What connecting to a peer address and probing it with PING can end in:
\*   refused  open_connection raises an OSError
\*   fail     the peer answers a status other than HELO
\*   eof      the peer closes without answering: read(5) returns b""
\*   silent   the peer never answers
\*   helo     the peer answers HELO
Outcomes == {"refused", "fail", "eof", "silent", "helo"}

\* the addresses, in list order, whose connection ended in outcome o
Answered(addrs, oc, o) ==
    LET idx == SelectSeq([i \in 1..Len(oc) |-> i], LAMBDA i : oc[i] = o)
    IN [j \in 1..Len(idx) |-> addrs[idx[j]]]

FreeSlots(c) == {p \in PeerSlots : c[p] = "free"}

RECURSIVE ConnectPeers(_, _, _, _)
\* for peer in value.strip("\"").split("/"): try ... except (OSError, ConnectionError)
ConnectPeers(addrs, oc, i, acc) ==
    IF i > Len(addrs) \/ acc.status # "ok" THEN acc
    ELSE ConnectPeers(addrs, oc, i + 1,
           CASE oc[i] = "helo" ->
                  LET p == CHOOSE q \in FreeSlots(acc.conn) :
                               \A r \in FreeSlots(acc.conn) : q <= r IN
                  [acc EXCEPT !.peers = Append(@, p),
                              !.conn = [@ EXCEPT ![p] = "open"],
                              !.opened = Append(@, [slot |-> p, node |-> NodeOf(addrs[i])])]
             [] oc[i] = "eof" -> [acc EXCEPT !.status = "struct.error"]
             [] oc[i] = "silent" -> [acc EXCEPT !.status = "blocked"]
             [] OTHER -> acc)

\* The outcomes the model lets a PEER transaction meet: a connection that
\* answers HELO needs a free slot and an address of a node.
PeerOutcomes(type, addrs) ==
    IF type # 5 THEN {<<>>}
    ELSE {oc \in [1..Len(addrs) -> Outcomes] :
            /\ Cardinality({i \in 1..Len(addrs) : oc[i] = "helo"})
                   <= Cardinality(FreeSlots(conn))
            /\ \A i \in 1..Len(addrs) : oc[i] = "helo" => addrs[i] \in KnownHosts}

\* The case of the match statement for one decoded transaction:
\* the rows, the peer list and connections, the packets written to the peers,
\* the response, and the exception raised if one is.
Dispatch(s, type, key, value, oc, ids) ==
    LET rows == db[sess[s].node]
        peers == sess[s].peers
        base == [rows |-> rows, peers |-> peers, conn |-> conn, opened |-> <<>>,
                 fwd |-> <<>>, resp |-> <<>>, status |-> "ok", mut |-> NoMutation]
    IN
    CASE type = 0 ->
           [base EXCEPT !.resp = BuildResponse(Response.HELO, <<>>)]
      [] type = 1 ->
           [base EXCEPT !.rows = SqlInsertOrReplace(rows, key, value),
                        !.status = IF peers # <<>> /\ ~IsAscii(key)
                                   THEN "UnicodeEncodeError" ELSE "ok",
                        !.resp = BuildResponse(Response.OPOK, <<>>),
                        !.mut = [op |-> "WRIT", key |-> key, value |-> value],
                        !.fwd = [j \in 1..Len(peers) |->
                                   BuildTransaction(ids[j], Transaction.WRIT, key, StrValue(value))]]
      [] type = 2 ->
           LET found == SqlSelect(rows, key)
               cell == IF found = <<>> THEN [t |-> "text", n |-> 0, s |-> NULL]
                       ELSE found[1].value
           IN IF cell.t = "int"
              THEN [base EXCEPT !.status = "TypeError"]   \* len() of an int
              ELSE IF ~IsAscii(cell.s)
              THEN [base EXCEPT !.status = "UnicodeEncodeError"]
              ELSE [base EXCEPT !.resp = BuildResponse(Response.OPOK, cell.s)]
      [] type = 3 ->
           [base EXCEPT !.rows = SqlDelete(rows, key),
                        !.status = IF peers # <<>> /\ ~IsAscii(key)
                                   THEN "UnicodeEncodeError" ELSE "ok",
                        !.resp = BuildResponse(Response.OPOK, <<>>),
                        !.mut = [op |-> "WIPE", key |-> key, value |-> <<>>],
                        !.fwd = [j \in 1..Len(peers) |->
                                   BuildTransaction(ids[j], Transaction.WIPE, key, NoValue)]]
      [] type = 4 ->
           [base EXCEPT !.resp = BuildResponse(Response.FAIL, MsgNoAuth)]
      [] type = 5 ->
           LET r == ConnectPeers(Split(Strip(value, QUOTE), SLASH), oc, 1, base)
           IN [r EXCEPT !.resp = BuildResponse(Response.OPOK, <<>>)]
      [] OTHER ->
           [base EXCEPT !.resp = BuildResponse(Response.FAIL, MsgNoSuchType)]

\* Logging.add_transaction: Transaction(type).name raises ValueError for a
\* type that is no member of the enumeration.
AddTransaction(type) == IF type \in TransactionValues THEN "ok" ELSE "ValueError"

\* One resumption of Carbon.handle's loop: the reads that complete without
\* suspending and, once the value is read, the match statement,
\* add_transaction, write_stream.write(response) and drain()
Handle(s) ==
    /\ sess[s].pc \in {"header", "key", "value"}
    /\ \E r \in {ReadTransaction(s)} :
       /\ r # Reader(s)
       /\ IF r.pc # "dispatch"
          THEN /\ sess' = [sess EXCEPT ![s].pc = r.pc, ![s].exc = r.exc, ![s].id = r.id,
                               ![s].type = r.type, ![s].key_length = r.key_length,
                               ![s].value_length = r.value_length, ![s].key = r.key]
               /\ inbuf' = [inbuf EXCEPT ![s] = r.buf]
               /\ UNCHANGED <<db, out, conn, hist, last>>
          ELSE \E oc \in PeerOutcomes(r.type, Split(Strip(r.value, QUOTE), SLASH)) :
               \E ids \in [1..(IF r.type \in {1, 3} THEN Len(sess[s].peers) ELSE 0) -> NanoIds] :
               \E e \in {Dispatch(s, r.type, r.key, r.value, oc, ids)} :
               LET node == sess[s].node
                   status == IF e.status = "ok" THEN AddTransaction(r.type) ELSE e.status
                   opened == {e.opened[i].slot : i \in 1..Len(e.opened)}
                   nodeOf(p) == e.opened[CHOOSE i \in 1..Len(e.opened) : e.opened[i].slot = p].node
                   reaches(p) == /\ \E j \in 1..Len(e.fwd) : sess[s].peers[j] = p
                                 /\ conn[p] = "open"
                                 /\ sess[p].pc \notin {"closed", "crashed", "aborted"}
                   packet(p) == e.fwd[CHOOSE j \in 1..Len(e.fwd) : sess[s].peers[j] = p]
               IN
               /\ db' = [db EXCEPT ![node] = e.rows]
               /\ hist' = [hist EXCEPT ![node] =
                             IF e.mut.op = "none" THEN @ ELSE Append(@, e.mut)]
               /\ conn' = e.conn
               /\ sess' = [p \in Sessions |->
                             IF p = s
                             THEN [sess[s] EXCEPT
                                     !.id = r.id, !.type = r.type, !.key_length = r.key_length,
                                     !.value_length = r.value_length, !.key = r.key,
                                     !.peers = e.peers,
                                     !.pc = IF status = "ok" THEN "header"
                                            ELSE IF status = "blocked" THEN "handshake"
                                            ELSE "crashed",
                                     !.exc = IF status \in {"ok", "blocked"} THEN "none"
                                             ELSE status]
                             ELSE IF p \in opened THEN NewSession(nodeOf(p))
                             ELSE sess[p]]
               /\ inbuf' = [p \in Sessions |->
                              IF p = s THEN r.buf
                              ELSE IF reaches(p) THEN inbuf[p] \o packet(p)
                              ELSE inbuf[p]]
               /\ out' = [out EXCEPT ![s] = IF status = "ok" THEN Append(@, e.resp) ELSE @]
               /\ last' = [last EXCEPT ![s] =
                             [n |-> last[s].n + 1, type |-> r.type, key |-> r.key,
                              value |-> r.value,
                              prior |-> LastMutation(hist[node], r.key),
                              peers0 |-> sess[s].peers,
                              helo |-> Answered(Split(Strip(r.value, QUOTE), SLASH), oc, "helo"),
                              resp |-> e.resp, sent |-> status = "ok"]]
    /\ UNCHANGED <<eof, frames, sel, cli>>

RECURSIVE ClosePeers(_, _, _)
\* for peer in session_peers: peer.close(); await peer.wait_closed()
\* wait_closed() raises the exception a connection was lost with.
ClosePeers(peers, i, acc) ==
    IF i > Len(peers) \/ acc.status # "ok" THEN acc
    ELSE ClosePeers(peers, i + 1,
           IF acc.conn[peers[i]] = "lost"
           THEN [acc EXCEPT !.status = "ConnectionError"]
           ELSE [acc EXCEPT !.conn = [@ EXCEPT ![peers[i]] = "closed"],
                            !.eof = [@ EXCEPT ![peers[i]] = TRUE]])

\* The end of Carbon.handle, after the loop: the peers of the session are
\* closed, then write_stream.close() and wait_closed()
Teardown(s) ==
    /\ sess[s].pc = "teardown"
    /\ \E e \in {ClosePeers(sess[s].peers, 1, [conn |-> conn, eof |-> eof, status |-> "ok"])} :
          /\ conn' = e.conn
          /\ eof' = e.eof
          /\ sess' = IF e.status = "ok" THEN [sess EXCEPT ![s].pc = "closed"]
                     ELSE Raise(s, e.status)
    /\ UNCHANGED <<db, inbuf, out, hist, last, frames, sel, cli>>

\* asyncio.start_server runs Carbon.handle as a task.  When the task ends with
\* an exception, asyncio 3.12 and later close the client's transport in the
\* task's done-callback; earlier versions leave it open.  The peer connections
\* of the session are closed in neither.
Abort(s) ==
    /\ sess[s].pc = "crashed"
    /\ sess' = [sess EXCEPT ![s].pc = "aborted"]
    /\ UNCHANGED <<db, inbuf, eof, out, conn, hist, last, frames, sel, cli>>

----------------------------------------------------------------------------
(* The server specification *)

\* No CarbonDB client exists.
NoSelect ==
    [pc |-> "idle", hosts |-> <<>>, i |-> 0, open_sockets |-> <<>>, socks |-> <<>>,
     oc |-> <<>>, active |-> 0, exc |-> "none", sent |-> <<>>]

\* A CarbonDB client outside any transaction: the transaction it encoded
\* last (n, id, type, key, value), the requests it has sent, the bytes of
\* them still in flight, the number of response bytes that have left the
\* server, the bytes received and not read, the locals of transact and what
\* its calls returned.
NoClient ==
    [pc |-> "idle", n |-> 0, id |-> <<>>, type |-> 0, key |-> <<>>, value |-> NoValue,
     reqs |-> <<>>, pending |-> <<>>, taken |-> 0, rbuf |-> <<>>,
     result |-> 0, packet_size |-> 0, returned |-> <<>>, exc |-> "none"]

Init ==
    /\ db = [n \in Nodes |-> <<>>]
    /\ sess = [s \in Sessions |-> NoSession]
    /\ inbuf = [s \in Sessions |-> <<>>]
    /\ eof = [s \in Sessions |-> FALSE]
    /\ out = [s \in Sessions |-> <<>>]
    /\ conn = [p \in PeerSlots |-> "free"]
    /\ hist = [n \in Nodes |-> <<>>]
    /\ last = [s \in Sessions |-> NoLast]
    /\ frames = 0
    /\ sel = NoSelect
    /\ cli = NoClient

Next ==
    \/ \E c \in Clients : Accept(c)
    \/ \E c \in Clients, r \in Requests : ClientSend(c, r)
    \/ \E c \in Clients : ClientDisconnect(c)
    \/ \E p \in PeerSlots : PeerLost(p)
    \/ \E s \in Sessions : Handle(s)
    \/ \E s \in Sessions : Teardown(s)
    \/ \E s \in Sessions : Abort(s)

Spec == Init /\ [][Next]_vars

----------------------------------------------------------------------------
(* CarbonDB.transact against a session of node 1 *)

MaxTransacts == 1   \* transactions the client starts

\* the session that serves the client's active connection
WireConn == 1

WireKeys == {<<>>, <<107>>, TIME}
WireValues == {NoValue, StrValue(<<97>>), BytesValue(<<97, 98>>)}

\* CarbonDB.transact up to its first recv: build_transaction and sendall.
\* type is a member of Transaction.
Transact(id, type, key, value) ==
    /\ cli.pc = "idle"
    /\ cli.n < MaxTransacts
    /\ sess[WireConn].pc # "none"
    /\ ~eof[WireConn]
    /\ inbuf' = [inbuf EXCEPT ![WireConn] = @ \o BuildTransaction(id, type, key, value)]
    /\ cli' = [cli EXCEPT !.pc = "recv", !.n = @ + 1, !.id = id, !.type = type,
                          !.key = key, !.value = value]
    /\ UNCHANGED <<db, sess, eof, out, conn, hist, last, frames, sel>>

\* What CarbonDB.transact returns when recv(5) returns the five bytes of the
\* header and recv(packet_size) all of the payload:
\* struct.unpack(">BI", ...) and the packet_size bytes that follow
TransactReturn(response) ==
    [result |-> response[1],
     packet_size |-> FromU32(SubSeq(response, 2, 5)),
     payload |-> Take(Drop(response, 5), FromU32(SubSeq(response, 2, 5)))]

NextWire ==
    \/ Accept(WireConn)
    \/ \E id \in NanoIds, type \in TransactionValues, key \in WireKeys, value \in WireValues :
           Transact(id, type, key, value)
    \/ Handle(WireConn)
    \/ ClientDisconnect(WireConn)
    \/ Teardown(WireConn)
    \/ Abort(WireConn)

SpecWire == Init /\ [][NextWire]_vars

----------------------------------------------------------------------------
(* A connection that delivers the bytes in chunks *)

MaxStreamTransacts == 2   \* transactions the client starts
MaxChunk == 32            \* bytes the connection delivers at once

\* The requests the client sends, laid out as Carbon.handle unpacks them
StreamRequests ==
    {[type |-> 1, key |-> <<107>>, value |-> <<97>>],
     [type |-> 2, key |-> <<107>>, value |-> <<>>]}

RECURSIVE Concat(_)
\* the byte stream made of the packets written one after the other
Concat(packets) ==
    IF packets = <<>> THEN <<>> ELSE Head(packets) \o Concat(Tail(packets))

\* transact up to its first recv: sendall(packet) hands the whole request to
\* the connection
StreamTransact(r) ==
    /\ cli.pc = "idle"
    /\ cli.n < MaxStreamTransacts
    /\ sess[WireConn].pc # "none"
    /\ cli' = [cli EXCEPT !.pc = "recv_header", !.n = @ + 1,
                          !.reqs = Append(@, r),
                          !.pending = @ \o ServerFrame(ClientId, r.type, r.key, r.value)]
    /\ UNCHANGED <<db, sess, inbuf, eof, out, conn, hist, last, frames, sel>>

\* The connection delivers the next k bytes of the requests to the server.
DeliverRequest(k) ==
    /\ k \in 1..Len(cli.pending)
    /\ inbuf' = [inbuf EXCEPT ![WireConn] = @ \o Take(cli.pending, k)]
    /\ cli' = [cli EXCEPT !.pending = Drop(@, k)]
    /\ UNCHANGED <<db, sess, eof, out, conn, hist, last, frames, sel>>

\* The connection delivers the next k bytes of the responses to the client.
DeliverResponse(k) ==
    /\ k \in 1..(Len(Concat(out[WireConn])) - cli.taken)
    /\ cli' = [cli EXCEPT !.taken = @ + k,
                          !.rbuf = @ \o SubSeq(Concat(out[WireConn]), cli.taken + 1, cli.taken + k)]
    /\ UNCHANGED <<db, sess, inbuf, eof, out, conn, hist, last, frames, sel>>

\* result, packet_size = struct.unpack(">BI", self.active_connection.recv(5)):
\* recv returns as soon as bytes are there, at most 5 of them
RecvHeader ==
    /\ cli.pc = "recv_header"
    /\ cli.rbuf # <<>>
    /\ cli' = IF Len(cli.rbuf) < 5
              THEN [cli EXCEPT !.pc = "raised", !.exc = "struct.error", !.rbuf = <<>>]
              ELSE [cli EXCEPT !.pc = "recv_payload",
                               !.result = cli.rbuf[1],
                               !.packet_size = FromU32(SubSeq(cli.rbuf, 2, 5)),
                               !.rbuf = Drop(@, 5)]
    /\ UNCHANGED <<db, sess, inbuf, eof, out, conn, hist, last, frames, sel>>

\* return result, self.active_connection.recv(packet_size): recv returns as
\* soon as bytes are there, at most packet_size of them; recv(0) returns b""
RecvPayload ==
    /\ cli.pc = "recv_payload"
    /\ cli.packet_size = 0 \/ cli.rbuf # <<>>
    /\ cli' = [cli EXCEPT !.pc = "idle",
                          !.returned = Append(@, [result |-> cli.result,
                                                  payload |-> Take(cli.rbuf, cli.packet_size)]),
                          !.rbuf = Drop(@, cli.packet_size)]
    /\ UNCHANGED <<db, sess, inbuf, eof, out, conn, hist, last, frames, sel>>

NextStream ==
    \/ Accept(WireConn)
    \/ \E r \in StreamRequests : StreamTransact(r)
    \/ \E k \in 1..MaxChunk : DeliverRequest(k)
    \/ Handle(WireConn)
    \/ Abort(WireConn)
    \/ \E k \in 1..MaxChunk : DeliverResponse(k)
    \/ RecvHeader
    \/ RecvPayload

SpecStream == Init /\ [][NextStream]_vars

----------------------------------------------------------------------------
(* One client of node 1 and the server process's lifetime *)

MaxStoreFrames == 4   \* request frames the client sends
MaxRestarts == 1      \* restarts of the server process

\* the values written, as bytes on the wire: "a", "b" and U+00E9
StoreValues == {<<97>>, <<98>>, <<195, 169>>}

\* The requests the client sends
StoreRequests ==
    {[type |-> 1, key |-> k, value |-> v] : k \in Keys, v \in StoreValues}
    \cup {[type |-> t, key |-> k, value |-> <<>>] : t \in {2, 3}, k \in Keys}
    \cup {[type |-> 4, key |-> <<80, 83, 87>>, value |-> <<120>>],
          [type |-> 4, key |-> <<>>, value |-> <<>>],
          [type |-> 4, key |-> <<107>>, value |-> <<97>>]}

\* The client sends one request on its open connection, once the bytes it
\* sent before have been read.
StoreSend(r) ==
    /\ sess[WireConn].pc \notin {"none", "teardown", "closed", "aborted"}
    /\ inbuf[WireConn] = <<>>
    /\ ~eof[WireConn]
    /\ frames < MaxStoreFrames
    /\ frames' = frames + 1
    /\ inbuf' = [inbuf EXCEPT ![WireConn] = ServerFrame(ClientId, r.type, r.key, r.value)]
    /\ UNCHANGED <<db, sess, eof, out, conn, hist, last, sel, cli>>

Restarts(n) == Cardinality({i \in 1..Len(hist[n]) : hist[n][i].op = "RESTART"})

\* The process of node n ends and main() runs again.  No statement of the
\* program commits: aiosqlite.connect opens the connection with sqlite3's
\* default isolation level, the first INSERT or DELETE begins a transaction
\* that stays open, and the end of the process rolls it back.  The file keeps
\* the table Carbon.init created, which is empty.
Restart(n) ==
    /\ Restarts(n) < MaxRestarts
    /\ db' = [db EXCEPT ![n] = <<>>]
    /\ hist' = [hist EXCEPT ![n] = Append(@, [op |-> "RESTART", key |-> <<>>, value |-> <<>>])]
    /\ sess' = [s \in Sessions |-> IF sess[s].node = n THEN NoSession ELSE sess[s]]
    /\ inbuf' = [s \in Sessions |-> IF sess[s].node = n THEN <<>> ELSE inbuf[s]]
    /\ eof' = [s \in Sessions |-> IF sess[s].node = n THEN FALSE ELSE eof[s]]
    /\ out' = [s \in Sessions |-> IF sess[s].node = n THEN <<>> ELSE out[s]]
    /\ last' = [s \in Sessions |-> IF sess[s].node = n THEN NoLast ELSE last[s]]
    /\ conn' = [p \in PeerSlots |->
                  IF conn[p] = "open" /\ sess[p].node = n THEN "lost"
                  ELSE IF \E s \in Sessions : /\ sess[s].node = n
                                              /\ \E i \in 1..Len(sess[s].peers) : sess[s].peers[i] = p
                  THEN "free"
                  ELSE conn[p]]
    /\ UNCHANGED <<frames, sel, cli>>

NextStore ==
    \/ Accept(WireConn)
    \/ \E r \in StoreRequests : StoreSend(r)
    \/ ClientDisconnect(WireConn)
    \/ Handle(WireConn)
    \/ Teardown(WireConn)
    \/ Abort(WireConn)
    \/ Restart(1)

SpecStore == Init /\ [][NextStore]_vars

----------------------------------------------------------------------------
(* CarbonDB.select_host *)

MaxHosts == 3     \* configured hosts
MaxLatency == 2   \* measured latencies are 1..MaxLatency

HostNames == {HostName(1), HostName(2)}

HostLists == UNION {[1..n -> HostNames] : n \in 1..MaxHosts}

\* What probing one host can end in:
\*   refused  connect raises a ConnectionError
\*   oserror  connect raises another OSError (timeout, no route, name lookup)
\*   reset    sendall or recv raises ConnectionResetError
\*   eof      the host closes without answering: recv(5) returns b""
\*   fail     the host answers a status other than HELO
\*   silent   the host never answers
\*   helo     the host answers HELO
ProbeOutcomes == {"refused", "oserror", "reset", "eof", "fail", "silent", "helo"}

\* CarbonDB.__init__: self.hosts = hosts, active_connection = None, and the
\* call of select_host with open_sockets = []
InitSelect ==
    /\ db = [n \in Nodes |-> <<>>]
    /\ sess = [s \in Sessions |-> NoSession]
    /\ inbuf = [s \in Sessions |-> <<>>]
    /\ eof = [s \in Sessions |-> FALSE]
    /\ out = [s \in Sessions |-> <<>>]
    /\ conn = [p \in PeerSlots |-> "free"]
    /\ hist = [n \in Nodes |-> <<>>]
    /\ last = [s \in Sessions |-> NoLast]
    /\ frames = 0
    /\ cli = NoClient
    /\ \E hosts \in HostLists : sel = [NoSelect EXCEPT !.pc = "probe", !.hosts = hosts, !.i = 1]

\* One iteration of "for host in self.hosts": connect, PING, recv(5)
Probe(o, latency) ==
    /\ sel.pc = "probe"
    /\ sel.i <= Len(sel.hosts)
    /\ sel' = [sel EXCEPT
          !.i = @ + 1,
          !.oc = Append(@, [o |-> o, latency |-> latency]),
          !.socks = Append(@, IF o \in {"refused", "oserror"} THEN "none" ELSE "open"),
          !.open_sockets =
              IF o = "helo"
              THEN Append(@, [connection |-> sel.i, latency |-> latency, host |-> sel.hosts[sel.i]])
              ELSE @,
          !.pc = IF o \in {"oserror", "reset", "eof"} THEN "raised"
                 ELSE IF o = "silent" THEN "blocked"
                 ELSE "probe",
          !.exc = CASE o = "oserror" -> "OSError"
                    [] o = "reset" -> "ConnectionResetError"
                    [] o = "eof" -> "struct.error"
                    [] OTHER -> "none"]
    /\ UNCHANGED <<db, sess, inbuf, eof, out, conn, hist, last, frames, cli>>

RECURSIVE InsertByLatency(_, _)
\* x goes behind every element whose latency is not greater
InsertByLatency(x, sorted) ==
    IF sorted = <<>> THEN <<x>>
    ELSE IF sorted[Len(sorted)].latency <= x.latency THEN Append(sorted, x)
    ELSE Append(InsertByLatency(x, SubSeq(sorted, 1, Len(sorted) - 1)), sorted[Len(sorted)])

RECURSIVE SortTiesLast(_)
\* ascending, but of the elements of least latency the last one comes first
SortTiesLast(s) ==
    IF s = <<>> THEN <<>>
    ELSE LET m == CHOOSE i \in 1..Len(s) :
                     \A j \in 1..Len(s) :
                         \/ s[i].latency < s[j].latency
                         \/ s[i].latency = s[j].latency /\ i >= j
         IN <<s[m]>> \o SortTiesLast(SubSeq(s, 1, m - 1) \o SubSeq(s, m + 1, Len(s)))

RECURSIVE SortByLatency(_)
\* open_sockets.sort(key = lambda _: _[1]): ascending and stable
SortByLatency(s) ==
    IF s = <<>> THEN <<>>
    ELSE InsertByLatency(s[Len(s)], SortByLatency(SubSeq(s, 1, Len(s) - 1)))

\* The lines after the loop: NoAvailableNodes, or sort, close the slower
\* connections and keep the first as active_connection
Select ==
    /\ sel.pc = "probe"
    /\ sel.i > Len(sel.hosts)
    /\ IF sel.open_sockets = <<>>
       THEN sel' = [sel EXCEPT !.pc = "raised", !.exc = "NoAvailableNodes"]
       ELSE \E sorted \in {SortByLatency(sel.open_sockets)} :
            sel' = [sel EXCEPT
               !.pc = "transmit",
               !.open_sockets = <<>>,
               !.active = sorted[1].connection,
               !.socks = [j \in 1..Len(sel.socks) |->
                            IF \E k \in 2..Len(sorted) : sorted[k].connection = j
                            THEN "closed" ELSE sel.socks[j]]]
    /\ UNCHANGED <<db, sess, inbuf, eof, out, conn, hist, last, frames, cli>>

RECURSIVE Join(_, _)
\* sep.join(parts)
Join(parts, sep) ==
    IF parts = <<>> THEN <<>>
    ELSE IF Len(parts) = 1 THEN parts[1]
    ELSE parts[1] \o <<sep>> \o Join(Tail(parts), sep)

\* "Transmit the peer list": if len(self.hosts) > 1, transact(Transaction.PEER,
\* "LIST", "/".join(the hosts other than the current one)).  Looking up a name
\* the enumeration does not define raises AttributeError.
TransmitPeers(id) ==
    /\ sel.pc = "transmit"
    /\ IF Len(sel.hosts) <= 1
       THEN sel' = [sel EXCEPT !.pc = "returned"]
       ELSE IF "PEER" \notin DOMAIN Transaction
       THEN sel' = [sel EXCEPT !.pc = "raised", !.exc = "AttributeError"]
       ELSE sel' = [sel EXCEPT
               !.pc = "returned",
               !.sent = Append(@, BuildTransaction(id, Transaction["PEER"], LIST,
                           StrValue(Join(SelectSeq(sel.hosts,
                               LAMBDA h : h # sel.hosts[sel.active]), SLASH))))]
    /\ UNCHANGED <<db, sess, inbuf, eof, out, conn, hist, last, frames, cli>>

NextSelect ==
    \/ \E o \in ProbeOutcomes, latency \in 1..MaxLatency : Probe(o, latency)
    \/ Select
    \/ \E id \in NanoIds : TransmitPeers(id)

SpecSelect == InitSelect /\ [][NextSelect]_vars

----------------------------------------------------------------------------
(* Claims about the server *)

\* a peer connection the session holds is usable and its other end is served
Live(p) == conn[p] = "open" /\ sess[p].pc \in {"header", "key", "value"}

\* the handler of s is not running and cannot be resumed by what it received
Quiet(s) ==
    \/ sess[s].pc \in {"none", "handshake", "closed", "crashed", "aborted"}
    \/ sess[s].pc \in {"header", "key", "value"} /\ ReadTransaction(s) = Reader(s)

\* C1: a READ of a key whose most recent mutation was WRIT(k, v) is answered
\* OPOK with payload v, also when k was written more than once (stated for
\* the values v that are no integer literal; a READ that finds an integer
\* literal raises and is not answered at all).
C1_ReadReturnsLastWrite ==
    \A s \in Sessions :
        (last[s].type = 2 /\ last[s].prior.op = "WRIT" /\ ~IsDigits(last[s].prior.value))
            => /\ last[s].sent
               /\ last[s].resp = BuildResponse(Response.OPOK, last[s].prior.value)

\* C2: when WRIT(k, v) has been sent to a session whose peer list holds live
\* peers, then once every session has processed what it received, the storage
\* of each of those peers holds for k what the originating node holds for it,
\* the value v.
C2_PeersStoreWrittenValue ==
    \A c \in Clients, k \in Keys, v \in Values :
        (/\ Len(sess[c].peers) >= 1
         /\ \A i \in 1..Len(sess[c].peers) : Live(sess[c].peers[i])
         /\ inbuf[c] = ServerFrame(ClientId, Transaction.WRIT, k, v)
         /\ \A s \in Sessions : Quiet(s))
            => \A i \in 1..Len(sess[c].peers) :
                   /\ SqlSelect(db[sess[sess[c].peers[i]].node], k) # <<>>
                   /\ SqlSelect(db[sess[sess[c].peers[i]].node], k)
                          = SqlSelect(db[sess[c].node], k)

\* C4: a PEER transaction whose addresses answer HELO, refuse the connection,
\* close without answering or answer another status appends one connection
\* per address that answered HELO, in list order, keeps the earlier entries,
\* is answered OPOK and leaves the session open.
C4_PeerSkipsFailingAddresses ==
    \A s \in Sessions :
        (last[s].type = 5 /\ sess[s].pc # "handshake")
            => /\ last[s].sent
               /\ last[s].resp = BuildResponse(Response.OPOK, <<>>)
               /\ sess[s].pc \notin {"crashed", "aborted"}
               /\ Len(sess[s].peers) = Len(last[s].peers0) + Len(last[s].helo)
               /\ SubSeq(sess[s].peers, 1, Len(last[s].peers0)) = last[s].peers0
               /\ \A i \in 1..Len(last[s].helo) :
                      HostName(sess[sess[s].peers[Len(last[s].peers0) + i]].node)
                          = last[s].helo[i]

\* C5: a transaction whose type is not in 0..5 is answered FAIL with the
\* message "The specified transaction type does not exist." and the session
\* stays open.
C5_UnknownTypeAnsweredFail ==
    \A s \in Sessions :
        (last[s].n > 0 /\ last[s].type \notin 0..5)
            => /\ last[s].sent
               /\ last[s].resp = BuildResponse(Response.FAIL, MsgNoSuchType)
               /\ sess[s].pc \notin {"crashed", "aborted"}

\* C6: once the client of a session has disconnected and the handler has
\* ended, every peer connection appended to the session's peer list is closed.
C6_DisconnectClosesPeers ==
    \A s \in Sessions :
        (eof[s] /\ sess[s].pc \in {"closed", "crashed", "aborted"})
            => \A i \in 1..Len(sess[s].peers) :
                   conn[sess[s].peers[i]] \in {"closed", "lost"}


----------------------------------------------------------------------------
(* Claims about the client *)

\* C3: once the server has taken in what it can of a transaction the client
\* encoded with build_transaction, it has decoded the id, the type, the key
\* length, the value length, the key and the value that were encoded.
C3_HeaderRoundTrip ==
    (cli.pc = "recv" /\ ~eof[WireConn] /\ Quiet(WireConn))
        => /\ last[WireConn].n = cli.n
           /\ sess[WireConn].id = cli.id
           /\ last[WireConn].type = cli.type
           /\ sess[WireConn].key_length = Len(cli.key)
           /\ sess[WireConn].value_length = Len(ValueBytes(cli.value))
           /\ last[WireConn].key = cli.key
           /\ last[WireConn].value = ValueBytes(cli.value)

\* the iterations of select_host whose host connected and answered HELO
Responders == {i \in 1..Len(sel.oc) : sel.oc[i].o = "helo"}

\* C7: whenever select_host has an active connection, it is the connection to
\* a responder of minimum latency, and among the responders of that latency
\* to the one that comes first in the configured list.
C7_SelectsMinLatencyFirst ==
    /\ sel.active # 0 =>
          /\ sel.active \in Responders
          /\ \A j \in Responders :
                \/ sel.oc[sel.active].latency < sel.oc[j].latency
                \/ sel.oc[sel.active].latency = sel.oc[j].latency /\ sel.active <= j
    /\ (sel.pc \in {"transmit", "returned"} \/ sel.exc = "AttributeError") => sel.active # 0

\* a selection where two responders tie on the minimum latency, the earlier
\* one is active, and a slower responder stands before both in the list
C7_Witness ==
    /\ sel.pc = "transmit"
    /\ \E h, j \in Responders :
          /\ h < sel.active /\ sel.active < j
          /\ sel.oc[h].latency > sel.oc[sel.active].latency
          /\ sel.oc[j].latency = sel.oc[sel.active].latency

\* C8: once select_host has chosen the active connection, no other connection
\* it opened is still open.
C8_OnlySelectedStaysOpen ==
    sel.active # 0 =>
        \A i \in 1..Len(sel.socks) : sel.socks[i] = "open" => i = sel.active

\* C9: when select_host has tried every configured host, none of them answered
\* HELO and the call has ended, it ended with NoAvailableNodes and without an
\* active connection.
C9_NoResponderRaisesNoAvailableNodes ==
    (/\ sel.pc \in {"returned", "raised"}
     /\ Len(sel.oc) = Len(sel.hosts)
     /\ Responders = {})
        => sel.exc = "NoAvailableNodes" /\ sel.active = 0

\* C10: when select_host has chosen the active connection and is past the
\* transmission of the peer list, it has sent one PEER transaction (type 5,
\* key LIST) whose value is the "/"-joined list of the other configured hosts
\* if more than one host is configured, and nothing otherwise.
C10_PeerListSent ==
    (sel.active # 0 /\ sel.pc \in {"returned", "raised"})
        => IF Len(sel.hosts) > 1
           THEN \E id \in NanoIds :
                   sel.sent = <<BuildTransaction(id, 5, LIST,
                       StrValue(Join(SelectSeq(sel.hosts,
                           LAMBDA h : h # sel.hosts[sel.active]), SLASH)))>>
           ELSE sel.sent = <<>>

----------------------------------------------------------------------------
(* Claims about storage *)

\* the WRIT and WIPE statements of key in a node's history
Mutations(h, key) == SelectSeq(h, LAMBDA m : m.op \in {"WRIT", "WIPE"} /\ m.key = key)

\* C11: a READ of a key that was never written, or whose most recent mutation
\* is a WIPE, is answered OPOK with the payload "null" and the session stays
\* open.
C11_ReadAbsentReturnsNull ==
    \A s \in Sessions :
        (last[s].type = 2 /\ last[s].prior.op \in {"none", "WIPE"})
            => /\ last[s].sent
               /\ last[s].resp = BuildResponse(Response.OPOK, NULL)
               /\ sess[s].pc \notin {"crashed", "aborted"}

\* a READ answered after two WRITs of the key and then a WIPE of it
C11_Witness ==
    \E s \in Sessions :
        /\ last[s].type = 2
        /\ last[s].sent
        /\ last[s].prior.op = "WIPE"
        /\ LET m == Mutations(hist[sess[s].node], last[s].key) IN
              /\ Len(m) = 3
              /\ m[1].op = "WRIT" /\ m[2].op = "WRIT" /\ m[3].op = "WIPE"

\* C15: a READ of a key that was written once, with OPOK, and never wiped is
\* answered OPOK with the value written, also when the server process was
\* restarted in between (stated for ASCII values that are no integer literal).
C15_AcknowledgedWriteSurvivesRestart ==
    \A s \in Sessions :
        (/\ last[s].type = 2
         /\ Len(Mutations(hist[sess[s].node], last[s].key)) = 1
         /\ last[s].prior.op = "WRIT"
         /\ IsAscii(last[s].prior.value)
         /\ ~IsDigits(last[s].prior.value))
            => /\ last[s].sent
               /\ last[s].resp = BuildResponse(Response.OPOK, last[s].prior.value)

\* C16: a READ that finds a stored text is answered, and what
\* CarbonDB.transact decodes from the answer is the status OPOK, a length
\* equal to the number of payload bytes that follow the header, and the
\* stored text's UTF-8 bytes as payload.
C16_ResponseRoundTrip ==
    \A s \in Sessions :
        LET found == SqlSelect(db[sess[s].node], last[s].key) IN
        (last[s].type = 2 /\ found # <<>> /\ found[1].value.t = "text")
            => /\ last[s].sent
               /\ TransactReturn(last[s].resp).result = Response.OPOK
               /\ TransactReturn(last[s].resp).packet_size = Len(last[s].resp) - 5
               /\ TransactReturn(last[s].resp).payload = Utf8Encode(found[1].value.s)

\* "Authentication not supported on this database."
AuthNotSupported ==
    <<65, 117, 116, 104, 101, 110, 116, 105, 99, 97, 116, 105, 111, 110, 32,
      110, 111, 116, 32, 115, 117, 112, 112, 111, 114, 116, 101, 100, 32, 111,
      110, 32, 116, 104, 105, 115, 32, 100, 97, 116, 97, 98, 97, 115, 101,
      46>>

----------------------------------------------------------------------------
(* Claims about replication *)

\* the peer connections a session holds
PeersOf(s) == {sess[s].peers[i] : i \in 1..Len(sess[s].peers)}

\* C12: when WIPE(k) has been sent to a session whose peer list holds live
\* peers, then once every session has processed what it received, each of
\* those peers has executed a WIPE of k as its last mutation of k and holds no
\* row of k.
C12_PeersWipeKey ==
    \A c \in Clients, k \in Keys :
        (/\ PeersOf(c) # {}
         /\ \A p \in PeersOf(c) : Live(p)
         /\ inbuf[c] = ServerFrame(ClientId, Transaction.WIPE, k, <<>>)
         /\ \A s \in Sessions : Quiet(s))
            => \A p \in PeersOf(c) :
                   /\ LastMutation(hist[sess[p].node], k).op = "WIPE"
                   /\ SqlSelect(db[sess[p].node], k) = <<>>

\* C13: a session that holds peer connections, whatever their state, and has
\* received a WRIT or a WIPE is at its header read, where it takes the
\* transaction in; it has not ended.
C13_SessionWithPeersServesMutations ==
    \A c \in Clients, k \in Keys, v \in Values \cup {<<>>} :
        (/\ PeersOf(c) # {}
         /\ inbuf[c] = ServerFrame(ClientId, IF v = <<>> THEN Transaction.WIPE
                                             ELSE Transaction.WRIT, k, v))
            => sess[c].pc = "header"

\* C20: a session that serves a connection opened by another node's session
\* has an empty peer list, and when a WRIT or WIPE of k has been sent to a
\* session with live peers and every session has processed what it received,
\* each peer's node has executed exactly one mutation of k, the forwarded one.
C20_OneForwardPerPeer ==
    /\ \A p \in PeerSlots : sess[p].peers = <<>>
    /\ \A c \in Clients, k \in Keys, v \in Values \cup {<<>>} :
        (/\ PeersOf(c) # {}
         /\ \A p \in PeersOf(c) : Live(p)
         /\ inbuf[c] = ServerFrame(ClientId, IF v = <<>> THEN Transaction.WIPE
                                             ELSE Transaction.WRIT, k, v)
         /\ \A s \in Sessions : Quiet(s))
            => \A p \in PeersOf(c) :
                   /\ Len(Mutations(hist[sess[p].node], k)) = 1
                   /\ last[p].n = 1
                   /\ last[p].type = (IF v = <<>> THEN Transaction.WIPE ELSE Transaction.WRIT)

----------------------------------------------------------------------------
(* Claims about framing *)

\* C14: the step in which a session's header read returns fewer than 30
\* bytes, but some, sends no response, changes no storage and takes the
\* session to its teardown or through it.
C14_ShortHeaderTearsDown ==
    [][\A s \in Sessions :
          (/\ sess[s].pc = "header"
           /\ Len(inbuf[s]) \in 1..(HeaderSize - 1)
           /\ sess'[s] # sess[s])
              => /\ sess'[s].pc \in {"teardown", "closed"}
                 /\ out' = out
                 /\ db' = db]_vars

\* C18: however the bytes of the client's well-formed requests are cut into
\* chunks, the session does not end with an exception, and the transaction it
\* dispatched last is one of the requests sent, with its type and its whole
\* key and value.
C18_ChunkedFramesDispatchedWhole ==
    /\ sess[WireConn].pc \notin {"crashed", "aborted"}
    /\ last[WireConn].n > 0 =>
          /\ last[WireConn].n <= Len(cli.reqs)
          /\ last[WireConn].type = cli.reqs[last[WireConn].n].type
          /\ last[WireConn].key = Utf8Decode(cli.reqs[last[WireConn].n].key)
          /\ last[WireConn].value = Utf8Decode(cli.reqs[last[WireConn].n].value)

\* C19: however the bytes of the responses are cut into chunks, transact does
\* not raise, and its j-th call returns the status and the whole payload of
\* the j-th response the server wrote.
C19_TransactReturnsWholePayload ==
    /\ cli.pc # "raised"
    /\ \A j \in 1..Len(cli.returned) :
          /\ j <= Len(out[WireConn])
          /\ cli.returned[j].result = out[WireConn][j][1]
          /\ cli.returned[j].payload = Drop(out[WireConn][j], 5)

====
